---- MODULE Spec2Model ----
(***************************************************************************)
(* Model of the Streamlit recommendation page demo_streamlit.py: the       *)
(* cached catalog load (load_data), query resolution                       *)
(* (find_matching_product), the multi-query content recommendation         *)
(* (get_multi_product_recommendations), display_products and the two page  *)
(* flows (home page default, advanced recommendation flow).                *)
(*                                                                         *)
(* Text is a sequence of one-character strings (a column name is a         *)
(* sequence whose letters are kept together as one token).  A table is a   *)
(* record [cols, rows]: the column names and one tuple per row, aligned    *)
(* with cols.  Ratings are kept in thousandths.                            *)
(***************************************************************************)
EXTENDS Integers, Sequences, FiniteSets, TLC

VARIABLES
    pc,             \* "start" before data = load_data() has run, "ready" after
    raw,            \* the table process_data returns
    data,           \* the cached catalog
    user_id,        \* the sidebar's number input
    product_name,   \* the sidebar's text input
    recommend_btn,  \* whether the button was pressed for this run
    response,       \* the frames handed to display_products in this run, in order
    shown,          \* what display_products rendered for each of them
    calls,          \* the recommenders this run invoked
    status          \* "ok", or "error" when the run ended in an exception

vars == <<pc, raw, data, user_id, product_name, recommend_btn, response, shown, calls, status>>

(***************************************************************************)
(* Bounds of the model.                                                    *)
(***************************************************************************)
\* the longest catalog the load draws (rows of MasterRows, in order)
MaxRows == 6
\* user ids range over 0..MaxUser
MaxUser == 2

(***************************************************************************)
(* Text helpers: Python's str.strip, str.split(","), str.lower.            *)
(***************************************************************************)
IsSpace(c) == c = " "

RECURSIVE LStrip(_)
LStrip(s) == IF s # <<>> /\ IsSpace(Head(s)) THEN LStrip(Tail(s)) ELSE s

RECURSIVE RStrip(_)
RStrip(s) ==
    IF s # <<>> /\ IsSpace(s[Len(s)]) THEN RStrip(SubSeq(s, 1, Len(s) - 1)) ELSE s

Strip(s) == RStrip(LStrip(s))

\* s.split(","): the pieces between commas, empty pieces included
RECURSIVE SplitFrom(_, _)
SplitFrom(s, cur) ==
    IF s = <<>> THEN <<cur>>
    ELSE IF Head(s) = "," THEN <<cur>> \o SplitFrom(Tail(s), <<>>)
    ELSE SplitFrom(Tail(s), Append(cur, Head(s)))

SplitComma(s) == SplitFrom(s, <<>>)

Lower(c) ==
    CASE c = "A" -> "a"
      [] c = "B" -> "b"
      [] c = "C" -> "c"
      [] c = "Z" -> "z"
      [] OTHER -> c

LowerStr(s) == [i \in 1..Len(s) |-> Lower(s[i])]

\* the function f itself, held as the table of its values (a column computed once
\* rather than once per lookup)
Eager(f) == f @@ <<>>

\* the entries of s at the indices of K, in order (a boolean-mask selection)
RECURSIVE KeepFrom(_, _, _)
KeepFrom(s, K, i) ==
    IF i > Len(s) THEN <<>>
    ELSE IF i \in K THEN <<s[i]>> \o KeepFrom(s, K, i + 1)
    ELSE KeepFrom(s, K, i + 1)

Keep(s, K) == KeepFrom(s, K, 1)

RECURSIVE Concat(_)
Concat(ss) == IF ss = <<>> THEN <<>> ELSE Head(ss) \o Concat(Tail(ss))

Range(s) == {s[i] : i \in 1..Len(s)}

\* s.head(n) / the first n entries
HeadN(s, n) == SubSeq(s, 1, IF Len(s) < n THEN Len(s) ELSE n)

(***************************************************************************)
(* Cells and tables.                                                       *)
(***************************************************************************)
Num(v) == [t |-> "num", v |-> v]
NaN == [t |-> "nan", v |-> 0]
\* a text cell that parses as the number v, and one that does not parse
NumStr(v) == [t |-> "numstr", v |-> v]
BadStr == [t |-> "badstr", v |-> 0]
\* what a lookup of a column the table does not have yields
Absent == [t |-> "absent", v |-> 0]
\* a missing Brand cell, and a missing ImageURL cell (an ImageURL is a sequence of
\* tokens: whole URLs, other words, and the separators "|", "," and " ")
NA == "<NA>"
NoImage == <<NA>>

ColID == <<"ID">>
ColName == <<"Name">>
ColBrand == <<"Brand">>
ColRating == <<"Rating">>
ColReviewCount == <<"ReviewCount">>
ColImageURL == <<"ImageURL">>

HasCol(t, c) == \E i \in 1..Len(t.cols) : t.cols[i] = c

ColIdx(t, c) == CHOOSE i \in 1..Len(t.cols) : t.cols[i] = c /\ \A j \in 1..(i - 1) : t.cols[j] # c

\* row.get(c, default)
Cell(t, row, c, default) == IF HasCol(t, c) THEN row[ColIdx(t, c)] ELSE default

\* the rows of t whose index satisfies the mask K
Rows(t, K) == [cols |-> t.cols, rows |-> Keep(t.rows, K)]

NameOf(t, row) == Cell(t, row, ColName, <<>>)

\* the record a recommender returns for a row: Name, Brand, Rating, ReviewCount, ImageURL
Item(t, row) ==
    [Name |-> NameOf(t, row),
     Brand |-> Cell(t, row, ColBrand, NA),
     Rating |-> Cell(t, row, ColRating, Absent),
     ReviewCount |-> Cell(t, row, ColReviewCount, 0),
     ImageURL |-> Cell(t, row, ColImageURL, NoImage)]

(***************************************************************************)
(* The tables process_data can hand to load_data: any selection of at most *)
(* MaxRows rows of MasterRows, in order, under one of the headers of       *)
(* RatingHeaders for the rating column; and the larger tables WideTables.  *)
(***************************************************************************)
MasterRows ==
    << <<1, <<"a", "b", "c">>, "X", Num(4500), 1200, <<"http://i/1">> >>,
       <<2, <<"a", "b", "c">>, "X", Num(4500), 1200, <<"http://i/1">> >>,
       <<2, <<"A", "b">>, "Y", BadStr, 10, NoImage>>,
       <<1, <<"a", ".", "c">>, "Z", NaN, 5, <<" ", "http://i/4">> >>,
       <<3, <<"A", "b">>, "W", Num(4125), 10, <<"img", "|", "http://i/5", ",", "http://i/6">> >>,
       <<3, <<"b">>, "Y", NumStr(3456), 2000, <<"img", " ", "http://i/7">> >>,
       <<2, <<"c", "b">>, "Z", Num(3004), 7, <<"NaN">> >> >>

RatingHeaders == {<<"Rating">>, <<" ", "Rating", " ">>, <<"Stars">>}

Table(h, rows) ==
    [cols |-> <<ColID, ColName, ColBrand, h, ColReviewCount, ColImageURL>>, rows |-> rows]

SmallTables ==
    {Table(h, Keep(MasterRows, K)) :
        h \in RatingHeaders,
        K \in {S \in SUBSET (1..Len(MasterRows)) : Cardinality(S) <= MaxRows}}

\* a larger catalog of three groups of four products, every name once
WideRows ==
    << <<1, <<"a">>, "X", Num(4010), 1, <<"http://i/1">> >>,
       <<2, <<"a", "a">>, "X", Num(4020), 2, <<"http://i/1">> >>,
       <<1, <<"a", "a", "a">>, "X", Num(4030), 3, <<"http://i/1">> >>,
       <<2, <<"a", "a", "a", "a">>, "X", Num(4040), 4, <<"http://i/1">> >>,
       <<1, <<"b">>, "Y", Num(4050), 5, <<"http://i/4">> >>,
       <<2, <<"b", "b">>, "Y", Num(4060), 6, <<"http://i/4">> >>,
       <<3, <<"b", "b", "b">>, "Y", Num(4070), 7, <<"http://i/4">> >>,
       <<3, <<"b", "b", "b", "b">>, "Y", Num(4080), 8, <<"http://i/4">> >>,
       <<2, <<"c">>, "Z", Num(4090), 9, <<"http://i/5">> >>,
       <<3, <<"c", "c">>, "Z", Num(4100), 10, <<"http://i/5">> >>,
       <<1, <<"c", "c", "c">>, "Z", Num(4110), 11, <<"http://i/5">> >>,
       <<3, <<"c", "c", "c", "c">>, "Z", Num(4120), 12, <<"http://i/5">> >> >>

\* WideRows, whole or with one row left out
WideTables ==
    {Table(ColRating, Keep(WideRows, K)) :
        K \in {S \in SUBSET (1..Len(WideRows)) : Cardinality(S) >= Len(WideRows) - 1}}

RawTables == SmallTables \cup WideTables

NoTable == [cols |-> <<>>, rows |-> <<>>]

(***************************************************************************)
(* load_data                                                               *)
(***************************************************************************)
\* pd.to_numeric(errors="coerce"): a number stays, text that parses becomes its
\* number, anything else becomes NaN
ToNumeric(c) ==
    CASE c.t = "num" -> c
      [] c.t = "numstr" -> Num(c.v)
      [] OTHER -> NaN

FillNa0(c) == IF c.t = "nan" THEN Num(0) ELSE c

\* round(2) of a value in thousandths: to the nearest hundredth, a tie to the even one
Round2(c) ==
    IF c.t # "num" THEN c
    ELSE LET q == c.v \div 10
             r == c.v % 10
         IN  Num(10 * (IF r < 5 THEN q
                       ELSE IF r > 5 THEN q + 1
                       ELSE IF q % 2 = 0 THEN q ELSE q + 1))

\* astype(str): a missing cell becomes the text "nan"
AsStr(c) == IF c = NoImage THEN <<"nan">> ELSE c

CleanRating(c) == Round2(FillNa0(ToNumeric(c)))

\* data["Rating"] = pd.to_numeric(data["Rating"], errors="coerce").fillna(0).round(2)
CleanRatingCol(t) ==
    LET k == ColIdx(t, ColRating)
    IN  [t EXCEPT !.rows =
            [i \in 1..Len(t.rows) |-> [t.rows[i] EXCEPT ![k] = CleanRating(t.rows[i][k])]]]

\* data["ImageURL"] = data["ImageURL"].astype(str)
ImageAsStr(t) ==
    LET k == ColIdx(t, ColImageURL)
    IN  [t EXCEPT !.rows =
            [i \in 1..Len(t.rows) |-> [t.rows[i] EXCEPT ![k] = AsStr(t.rows[i][k])]]]

\* load_data without the trimming of the column names
load_data_NoStrip(r) ==
    LET d2 == IF HasCol(r, ColRating) THEN CleanRatingCol(r) ELSE r
        d3 == IF HasCol(d2, ColImageURL) THEN ImageAsStr(d2) ELSE d2
    IN  d3

load_data(r) ==
    LET d1 == [r EXCEPT !.cols = [i \in 1..Len(r.cols) |-> Strip(r.cols[i])]]
        d2 == IF HasCol(d1, ColRating) THEN CleanRatingCol(d1) ELSE d1
        d3 == IF HasCol(d2, ColImageURL) THEN ImageAsStr(d2) ELSE d2
    IN  d3

(***************************************************************************)
(* find_matching_product: Series.str.contains(user_input, case=False,      *)
(* na=False) takes user_input as a regular expression (regex=True is the   *)
(* default).  Over the characters of the model: "(" opens a group that is  *)
(* never closed, so compiling raises re.error; "." matches any character;  *)
(* every other character matches itself, letters in either case.           *)
(***************************************************************************)
RegexRaises(p) == \E i \in 1..Len(p) : p[i] = "("

CharMatches(pch, c) == pch = "." \/ Lower(pch) = Lower(c)

\* re.search(p, s, re.IGNORECASE) finds a match
RegexSearch(p, s) ==
    \E i \in 0..(Len(s) - Len(p)) : \A j \in 1..Len(p) : CharMatches(p[j], s[i + j])

None == [kind |-> "none", name |-> <<>>]
Raise == [kind |-> "raise", name |-> <<>>]

find_matching_product(t, user_input) ==
    IF RegexRaises(user_input) THEN Raise
    ELSE LET matches == Rows(t, {i \in 1..Len(t.rows) :
                                    RegexSearch(user_input, NameOf(t, t.rows[i]))})
         IN  IF matches.rows = <<>> THEN None
             ELSE [kind |-> "name", name |-> NameOf(matches, matches.rows[1])]

(***************************************************************************)
(* The three recommenders the page imports (rating_based_recommendation,   *)
(* content_based_filtering, collaborative_based_filtering).  Each returns  *)
(* a sequence of Item records.                                             *)
(***************************************************************************)
\* the indices of S in the strict total order before (the pairs <<i, j>> with i
\* ahead of j), first to last
SortIdx(S, before) ==
    LET pos == Eager([i \in S |-> Cardinality({j \in S : <<j, i>> \in before})])
    IN  [k \in 1..Cardinality(S) |-> CHOOSE i \in S : pos[i] = k - 1]

\* the indices of the rows that are the first of their name
FirstOfName(t) ==
    {i \in 1..Len(t.rows) :
        \A j \in 1..(i - 1) : NameOf(t, t.rows[j]) # NameOf(t, t.rows[i])}

\* the cap on the review count in the popularity score
CAP == 1000

RatingValue(c) == IF c.t = "num" THEN c.v ELSE 0

Min(a, b) == IF a < b THEN a ELSE b

\* 0.7 * rating + 0.3 * min(reviewCount, CAP), times 10000 (the rating is in thousandths)
Score(t, row) ==
    7 * RatingValue(Cell(t, row, ColRating, Absent))
    + 3000 * Min(Cell(t, row, ColReviewCount, 0), CAP)

get_top_rated_items(t, n) ==
    IF n <= 0 THEN <<>>
    ELSE LET S == FirstOfName(t)
             score == Eager([i \in S |-> Score(t, t.rows[i])])
             before == {p \in S \X S :
                           \/ score[p[1]] > score[p[2]]
                           \/ score[p[1]] = score[p[2]] /\ p[1] < p[2]}
             order == SortIdx(S, before)
         IN  HeadN([k \in 1..Len(order) |-> Item(t, t.rows[order[k]])], n)

\* a is a literal substring of b
Contains(b, a) ==
    \E i \in 0..(Len(b) - Len(a)) : \A j \in 1..Len(a) : a[j] = b[i + j]

\* the terms of a row's text profile: its lower-cased name's characters and its brand
Terms(t, row) ==
    {Lower(NameOf(t, row)[k]) : k \in 1..Len(NameOf(t, row))}
    \cup {Cell(t, row, ColBrand, NA)}

content_based_recommendation(t, item_name, n) ==
    LET hits == {i \in 1..Len(t.rows) :
                    Contains(LowerStr(NameOf(t, t.rows[i])), LowerStr(item_name))}
    IN  IF hits = {} \/ n <= 0 THEN <<>>
        ELSE LET anchor == CHOOSE i \in hits : \A j \in hits : i <= j
                 terms == Eager([i \in 1..Len(t.rows) |-> Terms(t, t.rows[i])])
                 inter == Eager([i \in 1..Len(t.rows) |-> Cardinality(terms[anchor] \cap terms[i])])
                 size == Eager([i \in 1..Len(t.rows) |-> Cardinality(terms[i])])
                 \* cosine(anchor, i) > cosine(anchor, j), both sides squared
                 More(i, j) == inter[i] * inter[i] * size[j] > inter[j] * inter[j] * size[i]
                 S == (1..Len(t.rows)) \ {anchor}
                 before == {p \in S \X S :
                               More(p[1], p[2]) \/ (~More(p[2], p[1]) /\ p[1] < p[2])}
                 order == SortIdx(S, before)
             IN  HeadN([k \in 1..Len(order) |-> Item(t, t.rows[order[k]])], n)

\* the names user u has interacted with: the rows tagged with u
UserItems(t, u) ==
    {NameOf(t, t.rows[i]) : i \in {k \in 1..Len(t.rows) : Cell(t, t.rows[k], ColID, 0) = u}}

Users(t) == {Cell(t, t.rows[i], ColID, 0) : i \in 1..Len(t.rows)}

RECURSIVE SumOver(_, _)
SumOver(S, w) ==
    IF S = {} THEN 0
    ELSE LET x == CHOOSE y \in S : TRUE IN w[x] + SumOver(S \ {x}, w)

collaborative_filtering_recommendations(t, target_user_id, n) ==
    IF target_user_id = 0 \/ UserItems(t, target_user_id) = {} \/ n <= 0 THEN <<>>
    ELSE LET mine == UserItems(t, target_user_id)
             items == Eager([v \in Users(t) \ {target_user_id} |-> UserItems(t, v)])
             \* a neighbour's weight: how many items it shares with the target
             w == Eager([v \in DOMAIN items |-> Cardinality(items[v] \cap mine)])
             near == {v \in DOMAIN w : w[v] > 0}
             weight == Eager([i \in FirstOfName(t) |->
                          SumOver({v \in near : NameOf(t, t.rows[i]) \in items[v]}, w)])
             S == {i \in FirstOfName(t) : NameOf(t, t.rows[i]) \notin mine /\ weight[i] > 0}
             before == {p \in S \X S :
                           \/ weight[p[1]] > weight[p[2]]
                           \/ weight[p[1]] = weight[p[2]] /\ p[1] < p[2]}
             order == SortIdx(S, before)
         IN  HeadN([k \in 1..Len(order) |-> Item(t, t.rows[order[k]])], n)

(***************************************************************************)
(* get_multi_product_recommendations                                       *)
(***************************************************************************)
\* DataFrame.drop_duplicates(): a row is dropped when an earlier row equals it in
\* every column
drop_duplicates(recs) ==
    Keep(recs, {i \in 1..Len(recs) : \A j \in 1..(i - 1) : recs[j] # recs[i]})

\* [p.strip() for p in user_input.split(",") if p.strip()]
Products(user_input) ==
    LET parts == SplitComma(user_input)
        stripped == [i \in 1..Len(parts) |-> Strip(parts[i])]
    IN  Keep(stripped, {i \in 1..Len(stripped) : stripped[i] # <<>>})

\* the loop over products from product k on, all_recs so far in acc; the result
\* records whether find_matching_product raised and whether the content
\* recommender was called
RECURSIVE MultiLoop(_, _, _, _, _, _)
MultiLoop(t, products, k, top_n, acc, called) ==
    IF k > Len(products) THEN [raised |-> FALSE, all_recs |-> acc, called |-> called]
    ELSE LET matched == find_matching_product(t, products[k])
         IN  IF matched.kind = "raise"
                 THEN [raised |-> TRUE, all_recs |-> acc, called |-> called]
             ELSE IF matched.kind = "name" /\ matched.name # <<>>
                 THEN MultiLoop(t, products, k + 1, top_n,
                                Append(acc, content_based_recommendation(t, matched.name, top_n)),
                                TRUE)
             ELSE MultiLoop(t, products, k + 1, top_n, acc, called)

\* get_multi_product_recommendations without the final head(top_n * 2)
get_multi_product_recommendations_NoCap(t, user_input, top_n) ==
    LET loop == MultiLoop(t, Products(user_input), 1, top_n, <<>>, FALSE)
    IN  [raised |-> loop.raised,
         called |-> loop.called,
         recs |-> IF loop.raised \/ loop.all_recs = <<>> THEN <<>>
                  ELSE drop_duplicates(Concat(loop.all_recs))]

get_multi_product_recommendations(t, user_input, top_n) ==
    LET loop == MultiLoop(t, Products(user_input), 1, top_n, <<>>, FALSE)
    IN  [raised |-> loop.raised,
         called |-> loop.called,
         recs |-> IF loop.raised \/ loop.all_recs = <<>> THEN <<>>
                  ELSE HeadN(drop_duplicates(Concat(loop.all_recs)), top_n * 2)]

(***************************************************************************)
(* get_first_image and display_products                                    *)
(***************************************************************************)
placeholder == <<"https://via.placeholder.com/150">>

StartsWithHttp(part) ==
    part # <<>> /\ Head(part) \in {"http://i/1", "http://i/4", "http://i/5",
                                   "http://i/6", "http://i/7"}

\* url.split(sep)
RECURSIVE SplitOn(_, _, _)
SplitOn(s, sep, cur) ==
    IF s = <<>> THEN <<cur>>
    ELSE IF Head(s) = sep THEN <<cur>> \o SplitOn(Tail(s), sep, <<>>)
    ELSE SplitOn(Tail(s), sep, Append(cur, Head(s)))

\* the first part of url, split on sep and stripped, that starts with http
FirstHttpPart(url, sep) ==
    LET parts == SplitOn(url, sep, <<>>)
        good == {i \in 1..Len(parts) : StartsWithHttp(Strip(parts[i]))}
    IN  IF good = {} THEN <<>> ELSE Strip(parts[CHOOSE i \in good : \A j \in good : i <= j])

RECURSIVE FirstImageFrom(_, _)
FirstImageFrom(url, seps) ==
    IF seps = <<>> THEN (IF StartsWithHttp(url) THEN url ELSE placeholder)
    ELSE IF Head(seps) \in Range(url) /\ FirstHttpPart(url, Head(seps)) # <<>>
        THEN FirstHttpPart(url, Head(seps))
    ELSE FirstImageFrom(url, Tail(seps))

get_first_image(u) ==
    IF u = NoImage THEN placeholder
    ELSE LET url == Strip(u)
         IN  IF url = <<>> \/ url \in {<<"nan">>, <<"NaN">>} THEN placeholder
             ELSE FirstImageFrom(url, <<"|", ",", " ">>)

\* round(float(rating), 2), 0.0 when float() raises
ShownRating(c) ==
    CASE c.t = "num" -> Round2(c)
      [] c.t = "numstr" -> Round2(Num(c.v))
      [] c.t = "nan" -> NaN
      [] OTHER -> Num(0)

Card(p) ==
    [name |-> p.Name,
     brand |-> p.Brand,
     rating |-> ShownRating(p.Rating),
     reviews |-> p.ReviewCount,
     img |-> get_first_image(p.ImageURL)]

\* what one call renders: the warning for an empty frame, else one card per row
display_products(df) ==
    IF df = <<>> THEN [warning |-> TRUE, cards |-> <<>>]
    ELSE [warning |-> FALSE, cards |-> [i \in 1..Len(df) |-> Card(df[i])]]

(***************************************************************************)
(* The page: one run of the script per interaction.                        *)
(***************************************************************************)
HomeTopN == 10
SearchTopN == 5
CollabTopN == 5
HybridTopN == 5
HybridCap == 10

\* what the user can type in the search box
Queries ==
    { <<>>, <<" ">>, <<"a">>, <<"A">>, <<"z">>, <<"a", ".", "c">>, <<".">>, <<"(">>,
      <<"a", ",", "z">>, <<"c", "b", ",", "a">>, <<" ", "a", " ", ",", ",", " ", "c", "b">>,
      <<"a", ",", "(">>, <<",", " ">>, <<"a", ",", "b", ",", "c">> }

UserIds == 0..MaxUser

Init ==
    /\ pc = "start"
    /\ raw \in RawTables
    /\ data = NoTable
    /\ user_id = 0
    /\ product_name = <<>>
    /\ recommend_btn = FALSE
    /\ response = <<>>
    /\ shown = <<>>
    /\ calls = {}
    /\ status = "ok"

\* data = load_data() in the first run of the script, which goes on to render the
\* page; every later run gets the cached frame
Load ==
    /\ pc = "start"
    /\ data' = load_data(raw)
    /\ pc' = "run"
    /\ UNCHANGED <<raw, user_id, product_name, recommend_btn, response, shown, calls, status>>

\* a widget changes and the script runs again, on a blank page
Rerun ==
    /\ pc' = "run"
    /\ response' = <<>>
    /\ shown' = <<>>
    /\ calls' = {}
    /\ status' = "ok"
    /\ UNCHANGED <<raw, data>>

\* st.sidebar.number_input is set to u; the button reads False in that run
SetUserId ==
    /\ pc = "idle"
    /\ \E u \in UserIds \ {user_id} : user_id' = u
    /\ recommend_btn' = FALSE
    /\ UNCHANGED product_name
    /\ Rerun

\* st.sidebar.text_input is set to q
SetProductName ==
    /\ pc = "idle"
    /\ \E q \in Queries \ {product_name} : product_name' = q
    /\ recommend_btn' = FALSE
    /\ UNCHANGED user_id
    /\ Rerun

\* st.sidebar.button is pressed: it reads True in the run the press starts
PressButton ==
    /\ pc = "idle"
    /\ recommend_btn' = TRUE
    /\ UNCHANGED <<user_id, product_name>>
    /\ Rerun

\* a run that drops the catalog's rows of repeated name in place
Render_InPlace(frames, called, st) ==
    /\ pc' = "idle"
    /\ response' = frames
    /\ shown' = [i \in 1..Len(frames) |-> display_products(frames[i])]
    /\ calls' = called
    /\ status' = st
    /\ data' = Rows(data, FirstOfName(data))
    /\ UNCHANGED <<raw, user_id, product_name, recommend_btn>>

\* the rest of a run: it hands frames to display_products, having invoked called,
\* and ends with st
Render(frames, called, st) ==
    /\ pc' = "idle"
    /\ response' = frames
    /\ shown' = [i \in 1..Len(frames) |-> display_products(frames[i])]
    /\ calls' = called
    /\ status' = st
    /\ UNCHANGED <<raw, data, user_id, product_name, recommend_btn>>

\* home page, user_id == 0
HomeNewUser ==
    /\ pc = "run"
    /\ ~recommend_btn
    /\ user_id = 0
    /\ Render(<<get_top_rated_items(data, HomeTopN)>>, {"rating"}, "ok")

\* the home page without the fall back to the top rated items
HomePersonalized_NoFallback ==
    /\ pc = "run"
    /\ ~recommend_btn
    /\ user_id # 0
    /\ Render(<<collaborative_filtering_recommendations(data, user_id, HomeTopN)>>,
              {"collab"}, "ok")

\* home page, user_id != 0
HomePersonalized ==
    /\ pc = "run"
    /\ ~recommend_btn
    /\ user_id # 0
    /\ LET collab_recs == collaborative_filtering_recommendations(data, user_id, HomeTopN)
       IN  IF collab_recs = <<>>
           THEN Render(<<get_top_rated_items(data, HomeTopN)>>, {"collab", "rating"}, "ok")
           ELSE Render(<<collab_recs>>, {"collab"}, "ok")

\* the search flow with the collaborative list stripped of the names already shown
SearchFlow_Filtered ==
    /\ pc = "run"
    /\ recommend_btn
    /\ Strip(product_name) # <<>>
    /\ LET search_recs == get_multi_product_recommendations(data, product_name, SearchTopN)
           content == IF search_recs.called THEN {"content"} ELSE {}
           collab_recs == collaborative_filtering_recommendations(data, user_id, CollabTopN)
           shownNames == {search_recs.recs[i].Name : i \in 1..Len(search_recs.recs)}
       IN  IF search_recs.raised THEN Render(<<>>, content, "error")
           ELSE IF user_id > 0
               THEN Render(<<search_recs.recs,
                             Keep(collab_recs, {i \in 1..Len(collab_recs) :
                                                   collab_recs[i].Name \notin shownNames})>>,
                           content \cup {"collab"}, "ok")
           ELSE Render(<<search_recs.recs>>, content, "ok")

\* button pressed, product_name.strip() non-empty
SearchFlow ==
    /\ pc = "run"
    /\ recommend_btn
    /\ Strip(product_name) # <<>>
    /\ LET search_recs == get_multi_product_recommendations(data, product_name, SearchTopN)
           content == IF search_recs.called THEN {"content"} ELSE {}
       IN  IF search_recs.raised THEN Render(<<>>, content, "error")
           ELSE IF user_id > 0
               THEN Render(<<search_recs.recs,
                             collaborative_filtering_recommendations(data, user_id, CollabTopN)>>,
                           content \cup {"collab"}, "ok")
           ELSE Render(<<search_recs.recs>>, content, "ok")

\* the top rated branch asking for the search flow's n
TopRatedFlow_SearchTopN ==
    /\ pc = "run"
    /\ recommend_btn
    /\ Strip(product_name) = <<>>
    /\ user_id = 0
    /\ Render(<<get_top_rated_items(data, SearchTopN)>>, {"rating"}, "ok")

\* button pressed, no product name, user_id == 0
TopRatedFlow ==
    /\ pc = "run"
    /\ recommend_btn
    /\ Strip(product_name) = <<>>
    /\ user_id = 0
    /\ Render(<<get_top_rated_items(data, HomeTopN)>>, {"rating"}, "ok")

\* final_rec of the hybrid branch
HybridMerge(content_rec, collab_rec) ==
    HeadN(drop_duplicates(content_rec \o collab_rec), HybridCap)

\* the rows of the catalog whose ID is u
UserHistory(t, u) == Rows(t, {i \in 1..Len(t.rows) : Cell(t, t.rows[i], ColID, 0) = u})

\* button pressed, no product name, user_id != 0
HybridFlow ==
    /\ pc = "run"
    /\ recommend_btn
    /\ Strip(product_name) = <<>>
    /\ user_id # 0
    /\ LET user_history == UserHistory(data, user_id)
       IN  IF user_history.rows = <<>>
           THEN Render(<<get_top_rated_items(data, HomeTopN)>>, {"rating"}, "ok")
           ELSE LET last_item == NameOf(user_history, user_history.rows[Len(user_history.rows)])
                    content_rec == content_based_recommendation(data, last_item, HybridTopN)
                    collab_rec == collaborative_filtering_recommendations(data, user_id, HybridTopN)
                IN  Render(<<HybridMerge(content_rec, collab_rec)>>, {"content", "collab"}, "ok")

Next ==
    \/ Load
    \/ SetUserId
    \/ SetProductName
    \/ PressButton
    \/ HomeNewUser
    \/ HomePersonalized
    \/ SearchFlow
    \/ TopRatedFlow
    \/ HybridFlow

Spec == Init /\ [][Next]_vars

(***************************************************************************)
(* Vocabulary of the properties.                                           *)
(***************************************************************************)
Idle == pc = "idle"
NoQuery == Strip(product_name) = <<>>
InHome == Idle /\ ~recommend_btn
InSearch == Idle /\ recommend_btn /\ ~NoQuery
InHybrid == Idle /\ recommend_btn /\ NoQuery /\ user_id # 0

NamesOf(frame) == {frame[i].Name : i \in 1..Len(frame)}

NoDuplicateName(frame) ==
    \A i, j \in 1..Len(frame) : i < j => frame[i].Name # frame[j].Name

\* frame with every row dropped whose name an earlier row has
DedupByName(frame) ==
    Keep(frame, {i \in 1..Len(frame) : \A j \in 1..(i - 1) : frame[j].Name # frame[i].Name})

\* the first row of the catalog, in catalog order, whose name contains q as a literal
\* substring, letter case ignored
LiteralFind(t, q) ==
    LET hits == {i \in 1..Len(t.rows) :
                    Contains(LowerStr(NameOf(t, t.rows[i])), LowerStr(q))}
    IN  IF hits = {} THEN None
        ELSE [kind |-> "name",
              name |-> NameOf(t, t.rows[CHOOSE i \in hits : \A j \in hits : i <= j])]

Fragments == Products(product_name)

CollabHome == collaborative_filtering_recommendations(data, user_id, HomeTopN)
CollabSearch == collaborative_filtering_recommendations(data, user_id, CollabTopN)
TopRated == get_top_rated_items(data, HomeTopN)
SearchRecs == get_multi_product_recommendations(data, product_name, SearchTopN)

(***************************************************************************)
(* C1                                                                      *)
(***************************************************************************)
\* C1: the hybrid merge of the content and the collaborative results never holds two
\* items of the same name, also when catalog rows share a name and differ in
\* another field.
C1_HybridMergeNoDuplicateName ==
    (InHybrid /\ calls = {"content", "collab"}) => NoDuplicateName(response[1])

(***************************************************************************)
(* C2                                                                      *)
(***************************************************************************)
QueryMatches == \E k \in 1..Len(Fragments) : LiteralFind(data, Fragments[k]).kind = "name"
HasHistory == UserItems(data, user_id) # {}

CollabOrTopRated == IF CollabHome # <<>> THEN CollabHome ELSE TopRated

\* C3 as stated: without query text and with a known user, button pressed or not,
\* the response is the collaborative top N, or the top rated items when that is empty.
C3_CollabInBothFlows ==
    (Idle /\ NoQuery /\ user_id > 0) => response = <<CollabOrTopRated>>

\* C3 (amended): that is the response of the home page (button not pressed), where
\* the rating ranker runs only when the collaborative result is empty; with the
\* button pressed the response is the top rated items when the catalog has no row
\* of the user, and else the merge of the content top 5 for the name of the user's
\* last row with the collaborative top 5.
C3_CollabOnHomeHybridOnButton ==
    /\ (InHome /\ user_id > 0) =>
          /\ response = <<CollabOrTopRated>>
          /\ ("rating" \in calls <=> CollabHome = <<>>)
    /\ InHybrid =>
          LET user_history == UserHistory(data, user_id)
          IN  IF user_history.rows = <<>>
              THEN response = <<TopRated>> /\ calls = {"rating"}
              ELSE response =
                     <<HybridMerge(
                         content_based_recommendation(
                             data,
                             NameOf(user_history, user_history.rows[Len(user_history.rows)]),
                             HybridTopN),
                         collaborative_filtering_recommendations(data, user_id, HybridTopN))>>

C3_Witness ==
    /\ InHybrid
    /\ CollabHome # <<>>
    /\ response # <<CollabHome>>
    /\ response[1] # <<>>

(***************************************************************************)
(* C4                                                                      *)
(***************************************************************************)
\* C4 as stated: the search result and the hybrid merge are no longer than the n
\* requested of each recommender.
C4_AtMostN ==
    /\ (InSearch /\ status = "ok") => Len(response[1]) <= SearchTopN
    /\ InHybrid => Len(response[1]) <= HybridTopN

\* C4 (amended): the search result is at most 2n long, n being what was requested
\* for each fragment, and the hybrid merge at most 10, twice what was requested of
\* each of its two recommenders.
C4_AtMostTwiceN ==
    /\ (InSearch /\ status = "ok") => Len(response[1]) <= 2 * SearchTopN
    /\ InHybrid => Len(response[1]) <= 2 * HybridTopN /\ Len(response[1]) <= HybridCap

\* the cap acts: a search over three anchors whose results hold more than 2n rows
C4_Witness ==
    /\ InSearch /\ status = "ok"
    /\ Len(response[1]) = 2 * SearchTopN
    /\ Len(Fragments) = 3

(***************************************************************************)
(* C5                                                                      *)
(***************************************************************************)
RECURSIVE FragmentRecs(_, _, _)
FragmentRecs(t, frs, n) ==
    IF frs = <<>> THEN <<>>
    ELSE LET m == find_matching_product(t, Head(frs))
         IN  (IF m.kind = "name" THEN content_based_recommendation(t, m.name, n) ELSE <<>>)
             \o FragmentRecs(t, Tail(frs), n)

\* C5: the result for a comma-separated query is the fragments' top-n content
\* results, in query order, with every later row of an already present name
\* dropped, cut to 2n.
C5_MultiDedupByName ==
    (InSearch /\ status = "ok") =>
        response[1] = HeadN(DedupByName(FragmentRecs(data, Fragments, SearchTopN)),
                            2 * SearchTopN)

(***************************************************************************)
(* C6                                                                      *)
(***************************************************************************)
\* C6: a query none of whose fragments is part of an item name gives an empty
\* result, never an exception, and the collaborative recommender still runs for a
\* known user.
C6_NoMatchIsEmpty ==
    (InSearch /\ ~QueryMatches) =>
        /\ status = "ok"
        /\ Len(response) >= 1 /\ response[1] = <<>>
        /\ (user_id > 0 => "collab" \in calls)

(***************************************************************************)
(* C7                                                                      *)
(***************************************************************************)
\* C7: every fragment resolves to the first item, in catalog order, whose name
\* contains it as a literal substring, letter case ignored.
C7_LiteralFirstMatch ==
    InSearch =>
        \A k \in 1..Len(Fragments) :
            find_matching_product(data, Fragments[k]) = LiteralFind(data, Fragments[k])

(***************************************************************************)
(* C8                                                                      *)
(***************************************************************************)
\* C8: without query text and with user id 0, button pressed or not, the response
\* is the rating ranker's top N and no other recommender is invoked.
C8_NewUserGetsTopRated ==
    (Idle /\ NoQuery /\ user_id = 0) =>
        /\ status = "ok"
        /\ response = <<TopRated>>
        /\ calls = {"rating"}

C8_Witness ==
    /\ Idle /\ NoQuery /\ user_id = 0 /\ recommend_btn
    /\ product_name = <<" ">>
    /\ Len(response) = 1 /\ Len(response[1]) > SearchTopN

(***************************************************************************)
(* C9                                                                      *)
(***************************************************************************)
Loaded == pc # "start"

\* the rating of row i of the catalog is a number, 0 when the raw cell is missing
\* or does not parse
RatingCleaned(i) ==
    LET c == Cell(data, data.rows[i], ColRating, Absent)
        r == raw.rows[i][4]
    IN  /\ c.t = "num"
        /\ (r.t \in {"nan", "badstr"} => c.v = 0)

\* C9 as stated: after the load every row is kept and has a numeric rating, 0 where
\* the raw rating is missing or unparsable, whatever the raw table, a table
\* without rating column included.
C9_EveryRatingNumeric ==
    Loaded =>
        /\ Len(data.rows) = Len(raw.rows)
        /\ \A i \in 1..Len(data.rows) : RatingCleaned(i)

RawHasRating == \E k \in 1..Len(raw.cols) : Strip(raw.cols[k]) = ColRating

\* C9 (amended): that holds of every raw table that has a column named Rating once
\* the column names are trimmed; of a table without one, load_data keeps every row
\* and gives the catalog no rating at all.
C9_RatingNumericWhenColumnPresent ==
    Loaded =>
        /\ Len(data.rows) = Len(raw.rows)
        /\ RawHasRating => \A i \in 1..Len(data.rows) : RatingCleaned(i)
        /\ ~RawHasRating => /\ ~HasCol(data, ColRating)
                            /\ \A i \in 1..Len(data.rows) : data.rows[i][4] = raw.rows[i][4]

C9_Witness ==
    /\ Loaded
    /\ raw.cols[4] = <<" ", "Rating", " ">>
    /\ \E i \in 1..Len(raw.rows) :
          /\ raw.rows[i][4] = BadStr
          /\ Cell(data, data.rows[i], ColRating, Absent) = Num(0)

(***************************************************************************)
(* C10                                                                     *)
(***************************************************************************)
\* C10: no run renders anything before load_data has built the catalog; once it is
\* built, no run and no widget change alters it, and every run reads the catalog
\* load_data built.
C10_CatalogFrozenAfterLoad ==
    [][/\ ~Loaded => (response = <<>> /\ calls = {})
       /\ Loaded => (data = load_data(raw) /\ data' = data)]_vars

C10_Witness ==
    /\ InSearch /\ status = "ok"
    /\ response[1] # <<>>
    /\ data = load_data(raw)

====
